---- MODULE Spec2Model ----
(***************************************************************************)
(* CNCI agent (networking/cnci_agent/client.go): the connection loop       *)
(* connectToServer, the ssntp notification handlers of agentClient, the    *)
(* decode goroutines they spawn, processCommand and the side-effect        *)
(* goroutines it spawns, and the select loop of main (signals, status,     *)
(* timeout, watchdog).  Every goroutine is a process of the model; every   *)
(* operation on an unbuffered channel is one rendezvous step of the two    *)
(* goroutines involved.  Goroutines have no identity in Go, so the         *)
(* handler invocations and the goroutines they spawn are kept as a bag.    *)
(***************************************************************************)
EXTENDS Naturals, Sequences, FiniteSets, Bags

----------------------------------------------------------------------------
(* Bounds of the model *)

\* Connect, Disconnect, Command and Event notifications that spawn work or
\* write state, delivered by the ssntp session in one run
MaxCalls == 2
\* goroutines that may be inside isConnected at the same time
MaxReaders == 2

\* capacity of signalCh: make(chan os.Signal, 1)
SignalChCap == 1

----------------------------------------------------------------------------
VARIABLES
    mainPc,        \* main's loop: "select", "wdog" (token taken, timer not yet spawned), "exited", "panic"
    signalCh,      \* number of signals buffered in signalCh
    doneClosed,    \* doneCh has been closed
    timeoutTask,   \* the goroutine of lines 483-486: "none", "armed"
    wdogTasks,     \* goroutines sleeping before / blocked on wdogCh <- struct{}{}
    loopPc,        \* connectToServer: "select", "recheck", "process", "register", "status", "returned"
    dialing,       \* connectToServer's local dialing
    dialErr,       \* connectToServer's local err: what it received from dialCh, "nil" or
                   \* "error" ("none" before the receipt)
    heldCmd,       \* connectToServer's local cmd: the command received last and not yet
                   \* passed to processCommand (NoCmd otherwise)
    closeCalled,   \* client.Close() has been called
    statusOffers,  \* values connectToServer has offered on statusCh
    dialPc,        \* the dial goroutine: "dial", "sendOk", "sendErr", "returned"
    connected,     \* ssntpConn.connected
    rdHolders,     \* isConnected calls holding the RWMutex for reading
    isConnectedRet,\* what the isConnected call that returned last returned: "true", "false"
                   \* ("none" before any)
    lastSet,       \* ghost: the handler whose setStatus stored last ("none" before any)
    calls,         \* bag of handler invocations and of the goroutines spawned for them
    accepted,      \* ghost: the commands in the order the loop received them
    dispatched,    \* ghost: <<backend operation, command>> in the order the goroutines were spawned
    completed,     \* ghost: the commands in the order their side-effect goroutines finished
    regEvents,     \* ConcentratorInstanceAdded events handed to sendNetworkEvent
    registerErr    \* processCommand's local err: what the sendNetworkEvent that returned
                   \* last returned, "nil" or "error" ("none" before any)

vars == <<mainPc, signalCh, doneClosed, timeoutTask, wdogTasks,
          loopPc, dialing, dialErr, heldCmd, closeCalled, statusOffers, dialPc,
          connected, rdHolders, isConnectedRet, lastSet,
          calls, accepted, dispatched, completed, regEvents, registerErr>>

mainVars == <<mainPc, signalCh, doneClosed, timeoutTask, wdogTasks>>
loopVars == <<loopPc, dialing, dialErr, heldCmd, closeCalled, statusOffers>>
lockVars == <<connected, rdHolders, isConnectedRet, lastSet>>
histVars == <<accepted, dispatched, completed, regEvents, registerErr>>

----------------------------------------------------------------------------
(* Values *)

Payloads == {"good", "bad"}

\* two payloads that decode to different structs, to tell two commands of one
\* type apart
DecodablePayloads == {"good", "other"}

CommandKinds == {"AssignPublicIP", "ReleasePublicIP", "OtherCommand"}
EventKinds == {"TenantAdded", "TenantRemoved", "OtherEvent"}

\* the struct types processCommand spawns a goroutine for
SideEffectCmds == {"EventTenantAdded", "EventTenantRemoved",
                   "CommandAssignPublicIP", "CommandReleasePublicIP"}

\* a *cmdWrapper: the type of the wrapped struct and the payload it was decoded from
Cmd(type, payload) == [type |-> type, payload |-> payload]

NoCmd == Cmd("none", "none")

\* a handler invocation or a goroutine: the handler it belongs to, the stage
\* it has reached and what it holds there (the frame's kind and payload before
\* the decode, the command after it)
Call(handler, pc, arg, payload, cmd) ==
    [handler |-> handler, pc |-> pc, arg |-> arg, payload |-> payload, cmd |-> cmd]

\* a handler or goroutine that has ended keeps nothing but how it ended
Ended(c, how) == Call(c.handler, how, "none", "none", NoCmd)

Tasks == BagToSet(calls)

At(pc) == {c \in Tasks : c.pc = pc}

Running == mainPc \in {"select", "wdog"}

\* the goroutine c moves on as d
Step(c, d) == calls' = (calls (-) SetToBag({c})) (+) SetToBag({d})

----------------------------------------------------------------------------
Init ==
    /\ mainPc = "select"
    /\ signalCh = 0
    /\ doneClosed = FALSE
    /\ timeoutTask = "none"
    /\ wdogTasks = 1
    /\ loopPc = "select"
    /\ dialing = TRUE
    /\ dialErr = "none"
    /\ heldCmd = NoCmd
    /\ closeCalled = FALSE
    /\ statusOffers = 0
    /\ dialPc = "dial"
    /\ connected = FALSE
    /\ rdHolders = 0
    /\ isConnectedRet = "none"
    /\ lastSet = "none"
    /\ calls = EmptyBag
    /\ accepted = <<>>
    /\ dispatched = <<>>
    /\ completed = <<>>
    /\ regEvents = 0
    /\ registerErr = "none"

----------------------------------------------------------------------------
(* ssntpConn: the connection status flag and its RWMutex.  RLock here does *)
(* not wait for a blocked writer, which only adds interleavings.           *)

\* a setStatus call holds the RWMutex for writing
WriteLocked == At("locked") # {}

\* the argument the handler passes to setStatus
StatusArg(handler) == handler = "ConnectNotify"

\* setStatus, s.Lock()
SetStatusLock(c) ==
    /\ Running
    /\ c.pc = "lock"
    /\ ~WriteLocked
    /\ rdHolders = 0
    /\ Step(c, [c EXCEPT !.pc = "locked"])
    /\ UNCHANGED <<mainVars, loopVars, dialPc, lockVars, histVars>>

\* ConnectNotify returning after setStatus without the send on cmdCh
AfterSetStatus_NoSend(c) == Ended(c, "returned")

\* what the handler does once setStatus has returned: ConnectNotify goes on to
\* client.cmdCh <- &cmdWrapper{&statusConnected{}}, DisconnectNotify returns
AfterSetStatus(c) ==
    IF c.handler = "ConnectNotify"
    THEN [c EXCEPT !.pc = "send", !.cmd = Cmd("statusConnected", "none")]
    ELSE Ended(c, "returned")

\* setStatus, s.connected = status; s.Unlock(), and the handler up to its next
\* blocking statement
SetStatusStore(c) ==
    /\ Running
    /\ c.pc = "locked"
    /\ connected' = StatusArg(c.handler)
    /\ lastSet' = c.handler
    /\ Step(c, AfterSetStatus(c))
    /\ UNCHANGED <<rdHolders, isConnectedRet>>
    /\ UNCHANGED <<mainVars, loopVars, dialPc, histVars>>

\* isConnected reading the flag without waiting for the writer
RLockFree_NoLock == TRUE

\* isConnected may take the read lock
RLockFree == ~WriteLocked

\* isConnected, s.RLock()
IsConnectedRLock ==
    /\ Running
    /\ rdHolders < MaxReaders
    /\ RLockFree
    /\ rdHolders' = rdHolders + 1
    /\ UNCHANGED <<connected, isConnectedRet, lastSet>>
    /\ UNCHANGED <<mainVars, loopVars, dialPc, calls, histVars>>

Returned(v) == IF v THEN "true" ELSE "false"

\* a read of s.connected that races with a writer inside its critical section
\* may see either value
ReadValues == IF WriteLocked THEN BOOLEAN ELSE {connected}

\* isConnected, return s.connected and the deferred s.RUnlock()
IsConnectedReturn ==
    /\ Running
    /\ rdHolders > 0
    /\ \E v \in ReadValues : isConnectedRet' = Returned(v)
    /\ rdHolders' = rdHolders - 1
    /\ UNCHANGED <<connected, lastSet>>
    /\ UNCHANGED <<mainVars, loopVars, dialPc, calls, histVars>>

----------------------------------------------------------------------------
(* Notification handlers of agentClient, called by the ssntp session *)

\* the notifications delivered so far that left a handler invocation or a
\* decode goroutine behind
Delivered ==
    BagCardinality([c \in {t \in Tasks : t.handler # "processCommand"} |-> calls[c]])

NewCall(c) ==
    /\ Running
    /\ Delivered < MaxCalls
    /\ calls' = calls (+) SetToBag({c})
    /\ UNCHANGED <<mainVars, loopVars, dialPc, lockVars, histVars>>

\* a handler that only logs
LogOnly ==
    /\ Running
    /\ UNCHANGED vars

ConnectNotify == NewCall(Call("ConnectNotify", "lock", "none", "none", NoCmd))

DisconnectNotify == NewCall(Call("DisconnectNotify", "lock", "none", "none", NoCmd))

StatusNotify == LogOnly

ErrorNotify == LogOnly

\* the handler's switch: a decode goroutine, holding the payload, for the
\* kinds it knows; the default branch only logs
Handle(handler, known, kind, payload) ==
    IF kind \in known
    THEN NewCall(Call(handler, "decode", kind, payload, NoCmd))
    ELSE LogOnly

\* CommandNotify called with a frame whose payload is one of payloads
CommandNotifyWith(payloads) ==
    \E cmd \in CommandKinds, payload \in payloads :
        Handle("CommandNotify", {"AssignPublicIP", "ReleasePublicIP"}, cmd, payload)

CommandNotify == CommandNotifyWith(Payloads)

\* EventNotify called with a frame whose payload is one of payloads
EventNotifyWith(payloads) ==
    \E event \in EventKinds, payload \in payloads :
        Handle("EventNotify", {"TenantAdded", "TenantRemoved"}, event, payload)

EventNotify == EventNotifyWith(Payloads)

\* yaml.Unmarshal(payload, &v) returns nil
Unmarshal(payload) == payload # "bad"

\* the struct a decode goroutine unmarshals into and wraps
DecodedType(kind) ==
    CASE kind = "AssignPublicIP" -> "CommandAssignPublicIP"
      [] kind = "ReleasePublicIP" -> "CommandReleasePublicIP"
      [] kind = "TenantAdded" -> "EventTenantAdded"
      [] kind = "TenantRemoved" -> "EventTenantRemoved"

\* the decode goroutine with the return after the warning missing
DecodeResult_NoReturn(c) ==
    Call(c.handler, "send", "none", "none", Cmd(DecodedType(c.arg), c.payload))

\* the decode goroutine after yaml.Unmarshal: return on an error, else go on
\* to client.cmdCh <- &cmdWrapper{...}
DecodeResult(c) ==
    IF Unmarshal(c.payload)
    THEN Call(c.handler, "send", "none", "none", Cmd(DecodedType(c.arg), c.payload))
    ELSE Ended(c, "failed")

Decode(c) ==
    /\ Running
    /\ c.pc = "decode"
    /\ Step(c, DecodeResult(c))
    /\ UNCHANGED <<mainVars, loopVars, dialPc, lockVars, histVars>>

----------------------------------------------------------------------------
(* The dial goroutine of connectToServer *)

\* client.Dial returns
DialReturn ==
    /\ Running
    /\ dialPc = "dial"
    /\ \E err \in {"nil", "error"} :
           dialPc' = IF err = "nil" THEN "sendOk" ELSE "sendErr"
    /\ UNCHANGED <<mainVars, loopVars, lockVars, calls, histVars>>

----------------------------------------------------------------------------
(* connectToServer *)

\* leaving the function with no deferred send on statusCh
LoopExit_NoDefer ==
    /\ loopPc' = "returned"
    /\ UNCHANGED statusOffers

\* leaving the function runs the deferred statusCh <- struct{}{}
LoopExit ==
    /\ loopPc' = "status"
    /\ statusOffers' = statusOffers + 1

\* case err := <-dialCh with the loop dialing again on an error
LoopDialResult_Retry ==
    /\ Running
    /\ loopPc = "select"
    /\ dialPc \in {"sendOk", "sendErr"}
    /\ IF dialPc = "sendErr"
       THEN /\ dialPc' = "dial"
            /\ UNCHANGED <<dialing, dialErr>>
       ELSE /\ dialPc' = "returned"
            /\ dialing' = FALSE
            /\ dialErr' = "nil"
    /\ UNCHANGED <<loopPc, statusOffers>>
    /\ UNCHANGED <<heldCmd, closeCalled>>
    /\ UNCHANGED <<mainVars, lockVars, calls, histVars>>

\* case err := <-dialCh with the loop storing the outcome in the status flag
LoopDialResult_SetsStatus ==
    /\ Running
    /\ loopPc = "select"
    /\ dialPc \in {"sendOk", "sendErr"}
    /\ dialPc' = "returned"
    /\ dialing' = FALSE
    /\ dialErr' = IF dialPc = "sendErr" THEN "error" ELSE "nil"
    /\ connected' = (dialPc = "sendOk")
    /\ IF dialPc = "sendErr"
       THEN LoopExit
       ELSE UNCHANGED <<loopPc, statusOffers>>
    /\ UNCHANGED <<heldCmd, closeCalled>>
    /\ UNCHANGED <<rdHolders, isConnectedRet, lastSet>>
    /\ UNCHANGED <<mainVars, calls, histVars>>

\* case err := <-dialCh without the test of err
LoopDialResult_NoBreak ==
    /\ Running
    /\ loopPc = "select"
    /\ dialPc \in {"sendOk", "sendErr"}
    /\ dialPc' = "returned"
    /\ dialing' = FALSE
    /\ dialErr' = IF dialPc = "sendErr" THEN "error" ELSE "nil"
    /\ UNCHANGED <<loopPc, statusOffers>>
    /\ UNCHANGED <<heldCmd, closeCalled>>
    /\ UNCHANGED <<mainVars, lockVars, calls, histVars>>

\* case err := <-dialCh
LoopDialResult ==
    /\ Running
    /\ loopPc = "select"
    /\ dialPc \in {"sendOk", "sendErr"}
    /\ dialPc' = "returned"
    /\ dialing' = FALSE
    /\ dialErr' = IF dialPc = "sendErr" THEN "error" ELSE "nil"
    /\ IF dialPc = "sendErr"
       THEN LoopExit
       ELSE UNCHANGED <<loopPc, statusOffers>>
    /\ UNCHANGED <<heldCmd, closeCalled>>
    /\ UNCHANGED <<mainVars, lockVars, calls, histVars>>

\* case <-doneCh without the break DONE
LoopDone_NoBreak ==
    /\ Running
    /\ loopPc = "select"
    /\ doneClosed
    /\ closeCalled' = TRUE
    /\ UNCHANGED <<loopPc, statusOffers>>
    /\ UNCHANGED <<dialing, dialErr, heldCmd>>
    /\ UNCHANGED <<mainVars, dialPc, lockVars, calls, histVars>>

\* case <-doneCh without the call of client.Close()
LoopDone_NoClose ==
    /\ Running
    /\ loopPc = "select"
    /\ doneClosed
    /\ IF ~dialing
       THEN LoopExit
       ELSE UNCHANGED <<loopPc, statusOffers>>
    /\ UNCHANGED <<dialing, dialErr, heldCmd, closeCalled>>
    /\ UNCHANGED <<mainVars, dialPc, lockVars, calls, histVars>>

\* case <-doneCh
LoopDone ==
    /\ Running
    /\ loopPc = "select"
    /\ doneClosed
    /\ closeCalled' = TRUE
    /\ IF ~dialing
       THEN LoopExit
       ELSE UNCHANGED <<loopPc, statusOffers>>
    /\ UNCHANGED <<dialing, dialErr, heldCmd>>
    /\ UNCHANGED <<mainVars, dialPc, lockVars, calls, histVars>>

\* a receipt that leaves the command on offer, to be received again
LoopRecvCmd_NoConsume(c) ==
    /\ Running
    /\ loopPc = "select"
    /\ c.pc = "send"
    /\ heldCmd' = c.cmd
    /\ loopPc' = "recheck"
    /\ accepted' = Append(accepted, c.cmd)
    /\ UNCHANGED <<dialing, dialErr, closeCalled, statusOffers, calls>>
    /\ UNCHANGED <<mainVars, dialPc, lockVars, dispatched, completed, regEvents, registerErr>>

\* a loop that receives from cmdCh only once it has the dial result
LoopRecvCmd_AfterDial(c) ==
    /\ Running
    /\ loopPc = "select"
    /\ ~dialing
    /\ c.pc = "send"
    /\ Step(c, Ended(c, "sent"))
    /\ heldCmd' = c.cmd
    /\ loopPc' = "recheck"
    /\ accepted' = Append(accepted, c.cmd)
    /\ UNCHANGED <<dialing, dialErr, closeCalled, statusOffers>>
    /\ UNCHANGED <<mainVars, dialPc, lockVars, dispatched, completed, regEvents, registerErr>>

\* case cmd := <-client.cmdCh, the rendezvous with one blocked sender, which
\* then runs to its end
LoopRecvCmd(c) ==
    /\ Running
    /\ loopPc = "select"
    /\ c.pc = "send"
    /\ Step(c, Ended(c, "sent"))
    /\ heldCmd' = c.cmd
    /\ loopPc' = "recheck"
    /\ accepted' = Append(accepted, c.cmd)
    /\ UNCHANGED <<dialing, dialErr, closeCalled, statusOffers>>
    /\ UNCHANGED <<mainVars, dialPc, lockVars, dispatched, completed, regEvents, registerErr>>

\* the inner select leaving the loop without the call of client.Close()
LoopRecheck_NoClose ==
    /\ Running
    /\ loopPc = "recheck"
    /\ IF doneClosed
       THEN LoopExit
       ELSE /\ loopPc' = "process"
            /\ UNCHANGED statusOffers
    /\ UNCHANGED <<dialing, dialErr, heldCmd, closeCalled>>
    /\ UNCHANGED <<mainVars, dialPc, lockVars, calls, histVars>>

\* the receipt of a command without the inner select
LoopRecheck_NoCheck ==
    /\ Running
    /\ loopPc = "recheck"
    /\ loopPc' = "process"
    /\ UNCHANGED <<closeCalled, statusOffers>>
    /\ UNCHANGED <<dialing, dialErr, heldCmd>>
    /\ UNCHANGED <<mainVars, dialPc, lockVars, calls, histVars>>

\* the inner select: case <-doneCh ... break DONE / default
LoopRecheck ==
    /\ Running
    /\ loopPc = "recheck"
    /\ IF doneClosed
       THEN /\ closeCalled' = TRUE
            /\ LoopExit
       ELSE /\ loopPc' = "process"
            /\ UNCHANGED <<closeCalled, statusOffers>>
    /\ UNCHANGED <<dialing, dialErr, heldCmd>>
    /\ UNCHANGED <<mainVars, dialPc, lockVars, calls, histVars>>

\* the switch with the bodies of the two command cases exchanged
BackendOp_Swapped(type) ==
    CASE type = "EventTenantAdded" -> "addRemoteSubnet"
      [] type = "EventTenantRemoved" -> "delRemoteSubnet"
      [] type = "CommandAssignPublicIP" -> "releasePubIP"
      [] type = "CommandReleasePublicIP" -> "assignPubIP"

\* the backend operation processCommand's switch picks for a struct type
BackendOp(type) ==
    CASE type = "EventTenantAdded" -> "addRemoteSubnet"
      [] type = "EventTenantRemoved" -> "delRemoteSubnet"
      [] type = "CommandAssignPublicIP" -> "assignPubIP"
      [] type = "CommandReleasePublicIP" -> "releasePubIP"

\* processCommand with the case for CommandReleasePublicIP missing: the
\* command falls to the default branch and is only logged
processCommand_MissingCase ==
    /\ Running
    /\ loopPc = "process"
    /\ IF heldCmd.type \in SideEffectCmds \ {"CommandReleasePublicIP"}
       THEN /\ calls' = calls (+) SetToBag({Call("processCommand", "effect", "none", "none", heldCmd)})
            /\ dispatched' = Append(dispatched, <<BackendOp(heldCmd.type), heldCmd>>)
            /\ heldCmd' = NoCmd
            /\ loopPc' = "select"
            /\ UNCHANGED regEvents
       ELSE IF heldCmd.type = "statusConnected"
       THEN /\ regEvents' = regEvents + 1
            /\ loopPc' = "register"
            /\ UNCHANGED <<calls, dispatched, heldCmd>>
       ELSE /\ heldCmd' = NoCmd
            /\ loopPc' = "select"
            /\ UNCHANGED <<calls, dispatched, regEvents>>
    /\ UNCHANGED <<dialing, dialErr, closeCalled, statusOffers, accepted, completed, registerErr>>
    /\ UNCHANGED <<mainVars, dialPc, lockVars>>

\* processCommand sending the registration event a second time
processCommand_Resend ==
    /\ Running
    /\ loopPc = "process"
    /\ IF heldCmd.type \in SideEffectCmds
       THEN /\ calls' = calls (+) SetToBag({Call("processCommand", "effect", "none", "none", heldCmd)})
            /\ dispatched' = Append(dispatched, <<BackendOp(heldCmd.type), heldCmd>>)
            /\ heldCmd' = NoCmd
            /\ loopPc' = "select"
            /\ UNCHANGED regEvents
       ELSE /\ heldCmd.type = "statusConnected"
            /\ regEvents' = regEvents + 2
            /\ loopPc' = "register"
            /\ UNCHANGED <<calls, dispatched, heldCmd>>
    /\ UNCHANGED <<dialing, dialErr, closeCalled, statusOffers, accepted, completed, registerErr>>
    /\ UNCHANGED <<mainVars, dialPc, lockVars>>

\* processCommand(&client.ssntpConn, cmd): a goroutine per side effect, the
\* registration event sent in the loop itself
processCommand ==
    /\ Running
    /\ loopPc = "process"
    /\ IF heldCmd.type \in SideEffectCmds
       THEN /\ calls' = calls (+) SetToBag({Call("processCommand", "effect", "none", "none", heldCmd)})
            /\ dispatched' = Append(dispatched, <<BackendOp(heldCmd.type), heldCmd>>)
            /\ heldCmd' = NoCmd
            /\ loopPc' = "select"
            /\ UNCHANGED regEvents
       ELSE /\ heldCmd.type = "statusConnected"
            /\ regEvents' = regEvents + 1
            /\ loopPc' = "register"
            /\ UNCHANGED <<calls, dispatched, heldCmd>>
    /\ UNCHANGED <<dialing, dialErr, closeCalled, statusOffers, accepted, completed, registerErr>>
    /\ UNCHANGED <<mainVars, dialPc, lockVars>>

\* processCommand calling sendNetworkEvent again when it returned an error
RegisterReturn_Retry ==
    /\ Running
    /\ loopPc = "register"
    /\ \E err \in {"nil", "error"} :
           /\ registerErr' = err
           /\ IF err = "error"
              THEN /\ loopPc' = "process"
                   /\ UNCHANGED heldCmd
              ELSE /\ loopPc' = "select"
                   /\ heldCmd' = NoCmd
    /\ UNCHANGED <<dialing, dialErr, closeCalled, statusOffers>>
    /\ UNCHANGED <<mainVars, dialPc, lockVars, calls>>
    /\ UNCHANGED <<accepted, dispatched, completed, regEvents>>

\* sendNetworkEvent(client, ssntp.ConcentratorInstanceAdded, nil) returns; an
\* error is logged only
RegisterReturn ==
    /\ Running
    /\ loopPc = "register"
    /\ \E err \in {"nil", "error"} : registerErr' = err
    /\ heldCmd' = NoCmd
    /\ loopPc' = "select"
    /\ UNCHANGED <<dialing, dialErr, closeCalled, statusOffers>>
    /\ UNCHANGED <<mainVars, dialPc, lockVars, calls>>
    /\ UNCHANGED <<accepted, dispatched, completed, regEvents>>

\* a side-effect goroutine that offers its command on cmdCh again when the
\* backend operation fails
EffectReturn_Requeue(c) ==
    /\ Running
    /\ c.pc = "effect"
    /\ \E err \in {"nil", "error"} :
           Step(c, IF err = "nil" THEN Ended(c, "finished") ELSE [c EXCEPT !.pc = "send"])
    /\ completed' = Append(completed, c.cmd)
    /\ UNCHANGED <<accepted, dispatched, regEvents, registerErr>>
    /\ UNCHANGED <<mainVars, loopVars, dialPc, lockVars>>

\* a side-effect goroutine: the backend operation returns; an error is logged only
EffectReturn(c) ==
    /\ Running
    /\ c.pc = "effect"
    /\ \E err \in {"nil", "error"} :
           Step(c, Ended(c, IF err = "nil" THEN "finished" ELSE "effectFailed"))
    /\ completed' = Append(completed, c.cmd)
    /\ UNCHANGED <<accepted, dispatched, regEvents, registerErr>>
    /\ UNCHANGED <<mainVars, loopVars, dialPc, lockVars>>

----------------------------------------------------------------------------
(* main *)

\* the OS delivers SIGINT, SIGTERM or SIGHUP, any number of times; the
\* signal package does not block and drops a signal when signalCh is full
DeliverSignal ==
    /\ Running
    /\ signalCh' = IF signalCh < SignalChCap THEN signalCh + 1 ELSE signalCh
    /\ UNCHANGED <<mainPc, doneClosed, timeoutTask, wdogTasks>>
    /\ UNCHANGED <<loopVars, dialPc, lockVars, calls, histVars>>

\* case <-signalCh without the goroutine that sends on timeoutCh
MainSignal_NoTimer ==
    /\ mainPc = "select"
    /\ signalCh > 0
    /\ signalCh' = signalCh - 1
    /\ IF doneClosed
       THEN /\ mainPc' = "panic"
            /\ UNCHANGED doneClosed
       ELSE /\ doneClosed' = TRUE
            /\ UNCHANGED mainPc
    /\ UNCHANGED <<timeoutTask, wdogTasks>>
    /\ UNCHANGED <<loopVars, dialPc, lockVars, calls, histVars>>

\* case <-signalCh: close(doneCh), which panics on a closed channel, and the
\* goroutine that sleeps and then sends on timeoutCh
MainSignal ==
    /\ mainPc = "select"
    /\ signalCh > 0
    /\ signalCh' = signalCh - 1
    /\ IF doneClosed
       THEN /\ mainPc' = "panic"
            /\ UNCHANGED <<doneClosed, timeoutTask>>
       ELSE /\ doneClosed' = TRUE
            /\ timeoutTask' = "armed"
            /\ UNCHANGED mainPc
    /\ UNCHANGED wdogTasks
    /\ UNCHANGED <<loopVars, dialPc, lockVars, calls, histVars>>

\* case <-statusCh without the break DONE
MainStatus_NoBreak ==
    /\ mainPc = "select"
    /\ loopPc = "status"
    /\ loopPc' = "returned"
    /\ UNCHANGED <<mainPc, signalCh, doneClosed, timeoutTask, wdogTasks>>
    /\ UNCHANGED <<dialing, dialErr, heldCmd, closeCalled, statusOffers>>
    /\ UNCHANGED <<dialPc, lockVars, calls, histVars>>

\* case <-statusCh: break DONE
MainStatus ==
    /\ mainPc = "select"
    /\ loopPc = "status"
    /\ loopPc' = "returned"
    /\ mainPc' = "exited"
    /\ UNCHANGED <<signalCh, doneClosed, timeoutTask, wdogTasks>>
    /\ UNCHANGED <<dialing, dialErr, heldCmd, closeCalled, statusOffers>>
    /\ UNCHANGED <<dialPc, lockVars, calls, histVars>>

\* case <-timeoutCh: break DONE
MainTimeout ==
    /\ mainPc = "select"
    /\ timeoutTask = "armed"
    /\ timeoutTask' = "none"
    /\ mainPc' = "exited"
    /\ UNCHANGED <<signalCh, doneClosed, wdogTasks>>
    /\ UNCHANGED <<loopVars, dialPc, lockVars, calls, histVars>>

\* case <-wdogCh
MainWdog ==
    /\ mainPc = "select"
    /\ wdogTasks > 0
    /\ wdogTasks' = wdogTasks - 1
    /\ mainPc' = "wdog"
    /\ UNCHANGED <<signalCh, doneClosed, timeoutTask>>
    /\ UNCHANGED <<loopVars, dialPc, lockVars, calls, histVars>>

\* the watchdog case spawning its go func() twice
MainWdogRearm_TwoTimers ==
    /\ mainPc = "wdog"
    /\ wdogTasks' = wdogTasks + 2
    /\ mainPc' = "select"
    /\ UNCHANGED <<signalCh, doneClosed, timeoutTask>>
    /\ UNCHANGED <<loopVars, dialPc, lockVars, calls, histVars>>

\* the watchdog case without its go func()
MainWdogRearm_NoTimer ==
    /\ mainPc = "wdog"
    /\ mainPc' = "select"
    /\ UNCHANGED <<signalCh, doneClosed, timeoutTask, wdogTasks>>
    /\ UNCHANGED <<loopVars, dialPc, lockVars, calls, histVars>>

\* the go func() of the watchdog case: sleep, then wdogCh <- struct{}{}
MainWdogRearm ==
    /\ mainPc = "wdog"
    /\ wdogTasks' = wdogTasks + 1
    /\ mainPc' = "select"
    /\ UNCHANGED <<signalCh, doneClosed, timeoutTask>>
    /\ UNCHANGED <<loopVars, dialPc, lockVars, calls, histVars>>

----------------------------------------------------------------------------
Next ==
    \/ ConnectNotify
    \/ DisconnectNotify
    \/ StatusNotify
    \/ ErrorNotify
    \/ CommandNotify
    \/ EventNotify
    \/ \E c \in Tasks : SetStatusLock(c)
    \/ \E c \in Tasks : SetStatusStore(c)
    \/ \E c \in Tasks : Decode(c)
    \/ DialReturn
    \/ LoopDialResult
    \/ LoopDone
    \/ \E c \in Tasks : LoopRecvCmd(c)
    \/ LoopRecheck
    \/ processCommand
    \/ RegisterReturn
    \/ \E c \in Tasks : EffectReturn(c)
    \/ DeliverSignal
    \/ MainSignal
    \/ MainStatus
    \/ MainTimeout
    \/ MainWdog
    \/ MainWdogRearm

Spec == Init /\ [][Next]_vars

----------------------------------------------------------------------------
(* Scheduling.  The Go runtime runs every runnable goroutine, so a step of *)
(* a goroutine that needs nothing from outside is weakly fair.  A select   *)
(* picks uniformly at random among its ready cases, so a case that is      *)
(* ready again and again is taken: strongly fair.  Nothing is assumed of   *)
(* what is outside the program: client.Dial, sendNetworkEvent and the      *)
(* backend operations may never return, signals and notifications may      *)
(* never come.                                                             *)

\* main's select loop
MainFairness ==
    /\ SF_vars(MainStatus)
    /\ SF_vars(MainTimeout)
    /\ SF_vars(MainWdog)
    /\ WF_vars(MainWdogRearm)

\* the decode goroutines and connectToServer's select loop
LoopFairness ==
    /\ WF_vars(\E c \in Tasks : Decode(c))
    /\ SF_vars(\E c \in Tasks : LoopRecvCmd(c))
    /\ SF_vars(LoopDialResult)
    /\ WF_vars(LoopRecheck)
    /\ WF_vars(processCommand)

\* For the eventual behaviour the session delivers connect and command
\* notifications; the other handlers either only log or run the same code
\* with other types.
NextLive ==
    \/ ConnectNotify
    \/ CommandNotify
    \/ \E c \in Tasks : SetStatusLock(c)
    \/ \E c \in Tasks : SetStatusStore(c)
    \/ \E c \in Tasks : Decode(c)
    \/ DialReturn
    \/ LoopDialResult
    \/ LoopDone
    \/ \E c \in Tasks : LoopRecvCmd(c)
    \/ LoopRecheck
    \/ processCommand
    \/ RegisterReturn
    \/ \E c \in Tasks : EffectReturn(c)
    \/ DeliverSignal
    \/ MainSignal
    \/ MainStatus
    \/ MainTimeout
    \/ MainWdog
    \/ MainWdogRearm

FairMain == Init /\ [][NextLive]_vars /\ MainFairness

FairLoop == Init /\ [][NextLive]_vars /\ LoopFairness

FairSpec == Init /\ [][NextLive]_vars /\ MainFairness /\ LoopFairness

\* connectToServer on its way out: the cases of its select that end the loop,
\* and the statements between a receipt from cmdCh and the next select
ExitFairness ==
    /\ SF_vars(LoopDialResult)
    /\ SF_vars(LoopDone)
    /\ WF_vars(LoopRecheck)
    /\ WF_vars(processCommand)

FairExit == Init /\ [][NextLive]_vars /\ ExitFairness

\* The goroutines spawned for notifications and commands, with what they
\* wait for: the decode and side-effect goroutines run when runnable, the
\* loop receives from cmdCh when it selects with a sender waiting and runs
\* from a receipt to its next select, and main takes an offered status value
\* and comes back from the watchdog case.  Beyond scheduling, this assumes
\* that sendNetworkEvent and the backend operations return.
TaskFairness ==
    /\ WF_vars(\E c \in Tasks : Decode(c))
    /\ WF_vars(\E c \in Tasks : EffectReturn(c))
    /\ SF_vars(\E c \in Tasks : LoopRecvCmd(c))
    /\ WF_vars(LoopRecheck \/ processCommand \/ RegisterReturn)
    /\ SF_vars(MainStatus)
    /\ WF_vars(MainWdogRearm)

FairTasks == Init /\ [][NextLive]_vars /\ TaskFairness

\* From a dial error to the end of the process: the loop takes the dial
\* result when it selects with the dial goroutine waiting and runs from a
\* receipt to its next select, main takes an offered status value and comes
\* back from the watchdog case.  Beyond scheduling, this assumes that
\* sendNetworkEvent returns.
DialFailureFairness ==
    /\ SF_vars(LoopDialResult)
    /\ WF_vars(LoopRecheck \/ processCommand \/ RegisterReturn)
    /\ SF_vars(MainStatus)
    /\ WF_vars(MainWdogRearm)

FairDialFailure == Init /\ [][NextLive]_vars /\ DialFailureFairness

----------------------------------------------------------------------------
(* The status flag with callers of isConnected: the session delivers       *)
(* connect and disconnect notifications, and up to MaxReaders goroutines   *)
(* call isConnected at any time.                                           *)

NextStatus ==
    \/ ConnectNotify
    \/ DisconnectNotify
    \/ \E c \in Tasks : SetStatusLock(c)
    \/ \E c \in Tasks : SetStatusStore(c)
    \/ IsConnectedRLock
    \/ IsConnectedReturn
    \/ DialReturn
    \/ LoopDialResult
    \/ LoopDone
    \/ \E c \in Tasks : LoopRecvCmd(c)
    \/ LoopRecheck
    \/ processCommand
    \/ RegisterReturn
    \/ DeliverSignal
    \/ MainSignal
    \/ MainStatus
    \/ MainTimeout
    \/ MainWdog
    \/ MainWdogRearm

SpecStatus == Init /\ [][NextStatus]_vars

----------------------------------------------------------------------------
(* Dispatch: the session delivers event and command notifications whose    *)
(* payloads all decode; the payloads of commands decode to two different   *)
(* structs per type.                                                       *)

NextDispatch ==
    \/ CommandNotifyWith(DecodablePayloads)
    \/ EventNotifyWith({"good"})
    \/ \E c \in Tasks : Decode(c)
    \/ DialReturn
    \/ LoopDialResult
    \/ LoopDone
    \/ \E c \in Tasks : LoopRecvCmd(c)
    \/ LoopRecheck
    \/ processCommand
    \/ \E c \in Tasks : EffectReturn(c)
    \/ DeliverSignal
    \/ MainSignal
    \/ MainStatus
    \/ MainTimeout
    \/ MainWdog
    \/ MainWdogRearm

SpecDispatch == Init /\ [][NextDispatch]_vars

----------------------------------------------------------------------------
(* Properties *)

\* the number of elements of sequence s that satisfy Test
Count(s, Test(_)) == Len(SelectSeq(s, Test))

IsSentinel(cmd) == cmd.type = "statusConnected"

\* the number of handler invocations and goroutines that satisfy Test
CountTasks(Test(_)) == BagCardinality([c \in {t \in Tasks : Test(t)} |-> calls[c]])

\* a goroutine blocked on client.cmdCh <- with a RegistrationReady command
SendsSentinel(c) == c.pc = "send" /\ IsSentinel(c.cmd)

\* a ConnectNotify invocation whose setStatus(true) has returned
ConnectedCall(c) == c.handler = "ConnectNotify" /\ c.pc \notin {"lock", "locked"}

\* RegistrationReady commands produced so far: offered on cmdCh or received by the loop
SentinelsMade == CountTasks(SendsSentinel) + Count(accepted, IsSentinel)

IsSideEffect(cmd) == cmd.type \in SideEffectCmds

\* C1: the status flag is true exactly when the setStatus that took effect
\* last was a connect notification's (false before any), and every
\* isConnected call returns the flag's value of the moment it returns, in
\* every interleaving of connect and disconnect notifications and readers.
C1_IsConnectedTracksLastNotify ==
    /\ [](connected = (lastSet = "ConnectNotify"))
    /\ [][rdHolders' < rdHolders => isConnectedRet' = Returned(lastSet = "ConnectNotify")]_vars

\* C1 witness: a reader has returned true after a connect notification, a
\* disconnect notification has taken effect since, and a reader holds the lock.
C1_Witness ==
    /\ isConnectedRet = "true"
    /\ lastSet = "DisconnectNotify"
    /\ connected = FALSE
    /\ rdHolders > 0

\* C2: every connect notification has produced exactly one RegistrationReady
\* command, whatever else is waiting on the command queue, and nothing but a
\* ConnectNotify invocation offers one.
C2_OneSentinelPerConnect ==
    /\ SentinelsMade = CountTasks(ConnectedCall)
    /\ \A c \in Tasks : IsSentinel(c.cmd) => c.handler = "ConnectNotify"

\* C2 witness: a connect notification has produced its command while a
\* decode goroutine is blocked handing off its own.
C2_Witness ==
    /\ SentinelsMade = 1
    /\ \E c \in At("send") : c.handler = "CommandNotify"

\* the side-effect commands the loop has received, in the order it received them
AcceptedEffects == SelectSeq(accepted, IsSideEffect)

\* the commands of the side-effect goroutines, in the order they were spawned
DispatchedCmds == [k \in 1..Len(dispatched) |-> dispatched[k][2]]

\* the loop holds a side-effect command it has received and not passed to
\* processCommand: it is about to, or it has left the loop at the re-check
HoldsEffect == loopPc \in {"recheck", "process", "status", "returned"} /\ IsSideEffect(heldCmd)

\* C3: the side-effect goroutines are spawned in the order in which the loop
\* received their commands: the dispatched commands are the received
\* side-effect commands, in order, but for the one the loop still holds; each
\* is dispatched to the backend operation of its type.  (That completion
\* order is free is what the witness shows.)
C3_DispatchInAcceptanceOrder ==
    /\ Len(AcceptedEffects) = Len(dispatched) + (IF HoldsEffect THEN 1 ELSE 0)
    /\ DispatchedCmds = SubSeq(AcceptedEffects, 1, Len(dispatched))
    /\ \A k \in 1..Len(dispatched) : dispatched[k][1] = BackendOp(dispatched[k][2].type)

\* C3 witness: two side effects have finished in the reverse of the order in
\* which they were dispatched.
C3_Witness ==
    /\ Len(completed) = 2
    /\ Len(dispatched) = 2
    /\ completed[1] = dispatched[2][2]
    /\ completed[2] = dispatched[1][2]
    /\ completed[1] # completed[2]

\* C4: once main has received a termination signal (doneCh is closed), the
\* process eventually ends, whatever the connection loop and the dial
\* goroutine do.
C4_TerminatesAfterSignal == doneClosed ~> ~Running

\* C4 witness: the process has ended through the timeout while client.Dial
\* had not returned and the connection loop had not left its loop.
C4_Witness ==
    /\ doneClosed
    /\ mainPc = "exited"
    /\ dialPc = "dial"
    /\ loopPc = "select"

\* C5: main never crashes, however many termination signals it receives.
C5_SignalsTolerated == mainPc # "panic"

\* C6: the connection loop does not leave its loop before it has received
\* the dial result.
C6_NoExitBeforeDialResult == loopPc \in {"status", "returned"} => ~dialing

\* C7: connectToServer has offered no value on statusCh while it is in its
\* loop, and exactly one once it has left it, whichever way it left.
C7_OneStatusOnExit ==
    /\ loopPc \in {"select", "recheck", "process", "register"} => statusOffers = 0
    /\ loopPc \in {"status", "returned"} => statusOffers = 1

\* C7 witness: the loop has left at the re-check that follows the receipt of
\* a command, and its one status value is on offer.
C7_Witness ==
    /\ loopPc = "status"
    /\ heldCmd # NoCmd
    /\ statusOffers = 1

\* C9: the watchdog re-arms for as long as the process runs: main spawns a
\* timer for every token it receives, and it receives the token again and
\* again unless the process ends.
C9_WatchdogRearmsForever ==
    /\ [][mainPc = "wdog" /\ mainPc' # "wdog" => wdogTasks' = wdogTasks + 1]_vars
    /\ []<>(mainPc = "wdog" \/ ~Running)

\* C9 witness: main has the token in hand after the dial has failed and the
\* connection loop has left its loop.
C9_Witness ==
    /\ mainPc = "wdog"
    /\ dialPc = "returned"
    /\ loopPc = "status"
    /\ ~doneClosed

\* a decode goroutine whose payload yaml.Unmarshal rejects / accepts
DecodingBad(c) == c.pc = "decode" /\ ~Unmarshal(c.payload)

DecodingGood(c) == c.pc = "decode" /\ Unmarshal(c.payload)

\* a side-effect goroutine has been spawned for a command of this type
DispatchedType(type) == \E k \in 1..Len(dispatched) : dispatched[k][2].type = type

\* the loop takes no more commands: shutdown is requested, the process or the
\* loop has ended, or the loop is inside sendNetworkEvent
NotAccepting ==
    \/ doneClosed
    \/ ~Running
    \/ loopPc \in {"status", "returned", "register"}

\* C8: a decode goroutine that fails ends and changes nothing else: no
\* command appears and no other goroutine, channel or variable is touched;
\* and a notification that is decoding after a failure, with a payload that
\* decodes, is still dispatched for as long as the loop accepts commands.
C8_DecodeFailureIsolated ==
    /\ [][\A c \in Tasks :
            DecodingBad(c) /\ CopiesIn(c, calls') < CopiesIn(c, calls)
            => /\ calls' = (calls (-) SetToBag({c})) (+) SetToBag({Ended(c, "failed")})
               /\ UNCHANGED <<mainVars, loopVars, dialPc, lockVars, histVars>>]_vars
    /\ \A kind \in {"AssignPublicIP", "ReleasePublicIP"} :
           (At("failed") # {} /\ \E c \in Tasks : DecodingGood(c) /\ c.arg = kind)
               ~> (DispatchedType(DecodedType(kind)) \/ NotAccepting)

\* C8 witness: a decode has failed, and the command of another notification,
\* whose payload decodes, has been dispatched.
C8_Witness ==
    /\ At("failed") # {}
    /\ Len(dispatched) = 1
    /\ Delivered = 2
    /\ ~doneClosed

\* RegistrationReady commands the loop has received
SentinelsAccepted == Count(accepted, IsSentinel)

\* C10 as claimed: every RegistrationReady command the loop has received and
\* is not about to process has had its registration event sent.
C10_RegistrationPerConnect ==
    regEvents = SentinelsAccepted
                - (IF loopPc \in {"recheck", "process"} /\ IsSentinel(heldCmd) THEN 1 ELSE 0)

\* the loop holds a RegistrationReady command it has not passed to processCommand
HoldsSentinel ==
    loopPc \in {"recheck", "process", "status", "returned"} /\ IsSentinel(heldCmd)

\* C10 amended: one registration event has been sent for every
\* RegistrationReady command passed to processCommand, so at most one per
\* connect notification; the loop drops a RegistrationReady command at the
\* re-check only when doneCh is closed.
C10_RegistrationPerProcessedSentinel ==
    /\ regEvents = SentinelsAccepted - (IF HoldsSentinel THEN 1 ELSE 0)
    /\ regEvents <= CountTasks(ConnectedCall)
    /\ loopPc \in {"status", "returned"} /\ IsSentinel(heldCmd) => doneClosed

\* C10 witness: one connect notification has been registered and the
\* RegistrationReady command of a second has been dropped at the re-check.
C10_Witness ==
    /\ regEvents = 1
    /\ loopPc = "status"
    /\ IsSentinel(heldCmd)
    /\ CountTasks(ConnectedCall) = 2

\* the backend operation the specification names for each command variant
OpOfVariant ==
    [EventTenantAdded |-> "addRemoteSubnet",
     EventTenantRemoved |-> "delRemoteSubnet",
     CommandAssignPublicIP |-> "assignPubIP",
     CommandReleasePublicIP |-> "releasePubIP"]

\* a goroutine spawned by processCommand, in any stage
IsEffectTask(c) == c.handler = "processCommand"

\* a goroutine spawned by processCommand that is inside its backend operation
InBackendOp(c) == c.handler = "processCommand" /\ c.pc = "effect"

\* the number of elements of sequence s equal to x
Occurrences(s, x) == Cardinality({k \in 1..Len(s) : s[k] = x})

\* C11: a command whose re-check found no shutdown requested is passed to
\* processCommand, which spawns exactly one goroutine for it, calling the
\* backend operation of its variant with that command; nothing else spawns
\* one, so no command gets a second or a different operation, and each
\* goroutine calls its operation once.
C11_OneBackendOpPerCommand ==
    /\ [](/\ CountTasks(IsEffectTask) = Len(dispatched)
          /\ \A k \in 1..Len(dispatched) :
                 /\ dispatched[k][1] = OpOfVariant[dispatched[k][2].type]
                 /\ dispatched[k][2] = AcceptedEffects[k]
          /\ \A cmd \in {dispatched[k][2] : k \in 1..Len(dispatched)} :
                 Occurrences(DispatchedCmds, cmd)
                     = Occurrences(completed, cmd)
                       + CountTasks(LAMBDA c : InBackendOp(c) /\ c.cmd = cmd))
    /\ [][(loopPc = "process" /\ loopPc' # "process" /\ IsSideEffect(heldCmd))
           => /\ dispatched' = Append(dispatched, <<OpOfVariant[heldCmd.type], heldCmd>>)
              /\ calls' = calls (+) SetToBag({Call("processCommand", "effect", "none", "none", heldCmd)})]_vars
    /\ [][dispatched' # dispatched => (loopPc = "process" /\ ~closeCalled)]_vars

\* C11 witness: two AssignPublicIP commands with different payloads have been
\* dispatched; the operation of the second has returned and the operation of
\* the first is still running with its own payload.
C11_Witness ==
    /\ Len(dispatched) = 2
    /\ dispatched[1][2].type = "CommandAssignPublicIP"
    /\ dispatched[2][2].type = "CommandAssignPublicIP"
    /\ dispatched[1][2].payload # dispatched[2][2].payload
    /\ completed = <<dispatched[2][2]>>
    /\ \E c \in Tasks : InBackendOp(c) /\ c.cmd = dispatched[1][2]

\* connectToServer has left its loop
LoopExited == loopPc \in {"status", "returned"}

\* the dial goroutine is blocked on dialCh <- err
DialReturned == dialPc \in {"sendOk", "sendErr"}

\* the loop leaves its for in this step
ExitStep == ~LoopExited /\ LoopExited'

\* the loop receives the dial error in this step
DialErrorReceipt == loopPc = "select" /\ dialPc = "sendErr" /\ dialPc' = "returned"

\* a termination signal has come while the loop was dialing, and client.Dial
\* has returned: the loop leaves and offers its status, unless the process
\* ends first or the loop is inside sendNetworkEvent
ExitsOnceDialReturns ==
    (doneClosed /\ dialing /\ DialReturned)
        ~> ((LoopExited /\ statusOffers = 1) \/ ~Running \/ loopPc = "register")

\* C12 as claimed: with doneCh closed while the loop is dialing and the dial
\* returned, the loop leaves and offers its status, and it has called
\* client.Close() when it leaves.
C12_CloseBeforeStatusOnAnyDialResult ==
    /\ ExitsOnceDialReturns
    /\ [][doneClosed /\ dialing /\ ExitStep => closeCalled']_vars

\* C12 amended: the loop leaves and offers its status; it has called
\* client.Close() when it leaves after doneCh was closed, except when it
\* leaves on the receipt of a dial error, where it calls nothing.
C12_CloseBeforeStatusUnlessDialError ==
    /\ ExitsOnceDialReturns
    /\ [][doneClosed /\ ExitStep /\ ~DialErrorReceipt => closeCalled']_vars
    /\ [][DialErrorReceipt => ExitStep /\ UNCHANGED closeCalled]_vars

\* C12 witness: a signal has come and the loop, still dialing, has called
\* client.Close() and stayed in its loop; client.Dial has now returned with
\* success.
C12_Witness ==
    /\ doneClosed
    /\ dialing
    /\ closeCalled
    /\ loopPc = "select"
    /\ dialPc = "sendOk"

\* the loop has received the dial result nil and is in its for
ConnectedLoop == ~LoopExited /\ ~dialing /\ dialErr = "nil"

\* the loop takes a doneCh case in this step: a step of the loop from its
\* select or from the re-check, with doneCh closed, that is neither the
\* receipt of a command nor of the dial result
ObservesDone ==
    /\ loopPc \in {"select", "recheck"}
    /\ doneClosed
    /\ loopVars' # loopVars
    /\ accepted' = accepted
    /\ dialPc' = dialPc

\* C13: when the loop takes a doneCh case after it received the dial result
\* nil, that step calls client.Close(), leaves the for and offers the status
\* value, and receives and dispatches nothing; and once the loop has left it
\* receives and dispatches nothing more.
C13_ConnectedShutdownExitsAtOnce ==
    /\ [][ConnectedLoop /\ ObservesDone
            => /\ closeCalled'
               /\ loopPc' = "status"
               /\ statusOffers' = 1
               /\ UNCHANGED <<calls, accepted, dispatched, regEvents>>]_vars
    /\ [][LoopExited => LoopExited' /\ UNCHANGED <<accepted, dispatched, regEvents>>]_vars

\* C13 witness: connected, the loop has dispatched one command, then taken
\* case <-doneCh: it has called client.Close() and offers its status while a
\* decode goroutine is still blocked offering a command.
C13_Witness ==
    /\ loopPc = "status"
    /\ dialErr = "nil"
    /\ closeCalled
    /\ heldCmd = NoCmd
    /\ Len(dispatched) = 1
    /\ \E c \in At("send") : c.handler = "CommandNotify"

\* C14: the step in which the loop receives a dial error leaves the for and
\* offers the status value, and does nothing else; from then on the loop is
\* out of its for and no command is received, dispatched or registered; and
\* client.Dial, once it has returned, is never called again.
C14_DialFailureEndsLoop ==
    /\ [][DialErrorReceipt
            => /\ dialErr' = "error"
               /\ loopPc' = "status"
               /\ statusOffers' = 1
               /\ UNCHANGED <<heldCmd, closeCalled, calls, histVars>>]_vars
    /\ [](dialErr = "error" => LoopExited /\ statusOffers = 1)
    /\ [][dialErr = "error" => UNCHANGED <<dialErr, accepted, dispatched, regEvents>>]_vars
    /\ [][dialPc # "dial" => dialPc' # "dial"]_vars

\* C14 witness: the loop has dispatched one command, then received the dial
\* error with no shutdown requested; it offers its status while a decode
\* goroutine is blocked offering a command that will never be received.
C14_Witness ==
    /\ dialErr = "error"
    /\ loopPc = "status"
    /\ ~doneClosed
    /\ ~closeCalled
    /\ Len(dispatched) = 1
    /\ \E c \in At("send") : c.handler = "EventNotify"

\* C15 as claimed: once doneCh is closed no goroutine is spawned for a command.
C15_NoDispatchAfterDone == [][doneClosed => dispatched' = dispatched]_vars

\* C15 amended: with doneCh closed, the loop dispatches or registers nothing
\* but the command it holds past the re-check, and takes no other command
\* past the re-check; a command it receives goes to the re-check, and the
\* re-check drops it, calls client.Close() and leaves the for.  So at most
\* one command is received after the close, and at most one dispatched.
C15_LateCommandsAborted ==
    /\ [][doneClosed /\ loopPc # "process"
            => /\ loopPc' # "process"
               /\ UNCHANGED <<dispatched, regEvents>>]_vars
    /\ [][doneClosed /\ accepted' # accepted
            => /\ loopPc' = "recheck"
               /\ UNCHANGED <<closeCalled, dispatched, regEvents>>]_vars
    /\ [][doneClosed /\ loopPc = "recheck" /\ loopPc' # "recheck"
            => /\ closeCalled'
               /\ loopPc' = "status"
               /\ heldCmd' = heldCmd
               /\ UNCHANGED <<calls, accepted, dispatched, regEvents>>]_vars

\* C15 witness: doneCh is closed and the loop has left at the re-check with
\* the AssignPublicIP command it received and did not dispatch, while
\* another command is still on offer.
C15_Witness ==
    /\ doneClosed
    /\ loopPc = "status"
    /\ closeCalled
    /\ heldCmd.type = "CommandAssignPublicIP"
    /\ dispatched = <<>>
    /\ At("send") # {}

\* a record of the bag that is the handler's own invocation, running in the
\* session's delivery context, and not a goroutine the handler spawned
HandlerInvocation(c) == c.handler \in {"ConnectNotify", "DisconnectNotify"}

\* C16: no handler invocation is stopped at a send on cmdCh while the loop
\* is not at its select to receive it (busy with a command, or out of its
\* for).
C16_HandlersNeverBlock ==
    \A c \in Tasks : HandlerInvocation(c) /\ c.pc = "send" => loopPc = "select"

\* the goroutines that have not run to their end: decoding, blocked on the
\* send on cmdCh, or inside a backend operation
Unfinished == At("decode") \cup At("send") \cup At("effect")

Registering == loopPc \in {"process", "register"} /\ IsSentinel(heldCmd)

\* C18: while the loop is in processCommand with a RegistrationReady command
\* (received, with the re-check finding doneCh open) it receives no command
\* and no dial result, takes no doneCh case and spawns nothing; it sends the
\* registration event itself, once; and when sendNetworkEvent returns, with
\* an error or not, the loop is back at its select with nothing sent again.
C18_RegistrationSynchronous ==
    /\ [][Registering
            => /\ loopPc' \in {"process", "register", "select"}
               /\ UNCHANGED <<dialing, dialErr, closeCalled, statusOffers>>
               /\ UNCHANGED <<accepted, dispatched>>]_vars
    /\ [][Registering /\ loopPc = "process" /\ loopPc' # "process"
            => /\ loopPc' = "register"
               /\ regEvents' = regEvents + 1]_vars
    /\ [][loopPc = "register" /\ loopPc' # "register"
            => /\ loopPc' = "select"
               /\ heldCmd' = NoCmd
               /\ registerErr' \in {"nil", "error"}
               /\ regEvents' = regEvents]_vars
    /\ [](loopPc = "register" => IsSentinel(heldCmd))

\* C18 witness: the one registration send has failed, and the loop has since
\* received an AssignPublicIP command and dispatched it.
C18_Witness ==
    /\ registerErr = "error"
    /\ regEvents = 1
    /\ Len(accepted) = 2
    /\ IsSentinel(accepted[1])
    /\ Len(dispatched) = 1
    /\ dispatched[1][1] = "assignPubIP"

\* the loop has no dial result, no shutdown is requested, the process runs
DialingPhase == dialing /\ ~doneClosed /\ Running

\* C19: while the loop is dialing and no shutdown is requested it stays in
\* its for; every command on offer on cmdCh in that phase is received, and
\* the command the loop holds is passed through processCommand, for as long
\* as the phase lasts, client.Dial returning or not.
C19_NoDeadlockWhileDialing ==
    /\ [](DialingPhase => ~LoopExited)
    /\ (DialingPhase /\ At("send") # {}) ~> (At("send") = {} \/ ~DialingPhase)
    /\ (DialingPhase /\ heldCmd # NoCmd) ~> (heldCmd = NoCmd \/ ~DialingPhase)

\* C19 witness: client.Dial has not returned and no shutdown is requested;
\* the loop has received the RegistrationReady command of a connect
\* notification and sent the registration event, and has received and
\* dispatched a command.
C19_Witness ==
    /\ dialPc = "dial"
    /\ DialingPhase
    /\ regEvents = 1
    /\ Len(dispatched) = 1
    /\ At("send") = {}
    /\ loopPc = "select"

\* blocked on client.cmdCh <- / returned after it
Sending(c) == c.pc = "send"

HandedOff(c) == c.pc = "sent"

\* C20: cmdCh has no buffer.  A sender leaves its send only in the step in
\* which the loop, at its select, receives that sender's command, and the
\* loop receives only from a blocked sender, one per step; so the commands
\* received are as many as the senders that have returned, no command twice.
\* The loop holds at most the one command it received last: every other
\* received command has been dispatched or registered.  (That several
\* goroutines decode or wait to send at once is what the witness shows.)
C20_CommandQueueRendezvous ==
    /\ [](/\ Len(accepted) = CountTasks(HandedOff)
          /\ Len(accepted) = Len(dispatched) + regEvents
                              + (IF heldCmd # NoCmd /\ loopPc # "register" THEN 1 ELSE 0)
          /\ loopPc = "select" => heldCmd = NoCmd
          /\ heldCmd # NoCmd => heldCmd = accepted[Len(accepted)])
    /\ [][\A c \in At("send") :
            CopiesIn(c, calls') < CopiesIn(c, calls)
            => /\ loopPc = "select" /\ loopPc' = "recheck"
               /\ heldCmd' = c.cmd
               /\ accepted' = Append(accepted, c.cmd)
               /\ calls' = (calls (-) SetToBag({c})) (+) SetToBag({Ended(c, "sent")})]_vars
    /\ [][accepted' # accepted
            => /\ CountTasks(Sending)' = CountTasks(Sending) - 1
               /\ \E c \in At("send") : accepted' = Append(accepted, c.cmd)]_vars

\* C20 witness: the loop holds the one command it has received, whose sender
\* has returned, while every other goroutine spawned so far is blocked on its
\* send or decoding, one at least on its send.
C20_Witness ==
    /\ Len(accepted) = 1
    /\ loopPc = "process"
    /\ CountTasks(HandedOff) = 1
    /\ At("send") # {}
    /\ CountTasks(Sending) + CountTasks(LAMBDA c : c.pc = "decode") = MaxCalls - 1

\* a side-effect goroutine that has returned after its backend operation failed
FailedEffect == Call("processCommand", "effectFailed", "none", "none", NoCmd)

\* C21: a side-effect goroutine leaves its backend operation only by
\* returning, the operation failed or not, and that step ends the one
\* goroutine and nothing more: no goroutine appears or moves, so nothing is
\* offered on cmdCh and no operation is started; no registration event is
\* sent; main, the dial, the status flag and the loop, with the senders
\* waiting for it, are as before.  The goroutine stays ended, and there is
\* never more than one goroutine, so one invocation, per dispatched command.
C21_EffectFailureIsolated ==
    /\ [][\A c \in At("effect") :
            CopiesIn(c, calls') < CopiesIn(c, calls)
            => /\ \E how \in {"finished", "effectFailed"} :
                      calls' = (calls (-) SetToBag({c})) (+) SetToBag({Ended(c, how)})
               /\ completed' = Append(completed, c.cmd)
               /\ At("send")' = At("send")
               /\ UNCHANGED <<mainVars, loopVars, dialPc, lockVars>>
               /\ UNCHANGED <<accepted, dispatched, regEvents, registerErr>>]_vars
    /\ [][CopiesIn(FailedEffect, calls') >= CopiesIn(FailedEffect, calls)]_vars
    /\ [](/\ CountTasks(IsEffectTask) = Len(dispatched)
          /\ Len(completed) + CountTasks(InBackendOp) = Len(dispatched))

\* C21 witness: addRemoteSubnet has failed for the first command dispatched;
\* the loop has dispatched a second command, whose operation is running, and
\* is back at its select.
C21_Witness ==
    /\ CopiesIn(FailedEffect, calls) = 1
    /\ Len(dispatched) = 2
    /\ dispatched[1][1] = "addRemoteSubnet"
    /\ completed = <<dispatched[1][2]>>
    /\ dispatched[2][2] # dispatched[1][2]
    /\ loopPc = "select"

\* C22: the status flag changes only in the step in which a ConnectNotify or
\* DisconnectNotify invocation, inside setStatus, stores its argument; that
\* step is no step of the loop, of the dial, of main or of a decode or
\* side-effect goroutine, and no other handler or goroutine ever enters
\* setStatus.
C22_OnlyNotifyHandlersWriteStatus ==
    /\ [][connected' # connected
            => /\ \E c \in At("locked") :
                      /\ HandlerInvocation(c)
                      /\ CopiesIn(c, calls') < CopiesIn(c, calls)
                      /\ connected' = (c.handler = "ConnectNotify")
                      /\ lastSet' = c.handler
               /\ UNCHANGED <<mainVars, loopVars, dialPc, histVars>>]_vars
    /\ [](\A c \in At("lock") \cup At("locked") : HandlerInvocation(c))

\* C22 witness: a connect notification has set the flag; since then the loop
\* has registered, dispatched a command, taken the dial result and, on a
\* shutdown request, called client.Close() and left: the flag is still true.
C22_Witness ==
    /\ connected
    /\ lastSet = "ConnectNotify"
    /\ regEvents = 1
    /\ Len(dispatched) = 1
    /\ dialErr = "nil"
    /\ closeCalled
    /\ loopPc = "status"

\* main receives from statusCh / from timeoutCh in this step
StatusReceipt == mainPc = "select" /\ loopPc = "status" /\ loopPc' = "returned"

TimeoutReceipt == mainPc = "select" /\ timeoutTask = "armed" /\ timeoutTask' = "none"

\* C23: main stops running only in a step in which it receives from statusCh
\* or from timeoutCh, so never in the step in which it receives a signal or
\* the watchdog token; and a value is on offer on timeoutCh only after main
\* has received a signal.
C23_ExitOnlyOnStatusOrTimeout ==
    /\ [][Running /\ ~Running' => StatusReceipt \/ TimeoutReceipt]_vars
    /\ [][signalCh' < signalCh \/ wdogTasks' < wdogTasks => Running']_vars
    /\ [](timeoutTask = "armed" => doneClosed)

\* main has received the watchdog token and not yet spawned the next timer
HandlingToken == IF mainPc = "wdog" THEN 1 ELSE 0

\* C24: while the process runs there is exactly one watchdog token: one
\* goroutine sleeping or blocked on wdogCh <- (the priming goroutine or a
\* re-arm timer) and main not handling one, or none and main handling it;
\* there are never two such goroutines.
C24_OneWatchdogToken ==
    /\ Running => wdogTasks + HandlingToken = 1
    /\ wdogTasks <= 1

\* C24 witness: with shutdown requested, the timeout armed and the loop
\* offering its status, main has taken the watchdog token: no timer is
\* pending until main spawns the next.
C24_Witness ==
    /\ mainPc = "wdog"
    /\ wdogTasks = 0
    /\ timeoutTask = "armed"
    /\ loopPc = "status"

\* C25: once client.Dial has returned an error the process ends, with no
\* signal received (or a signal is received); with no signal received main
\* stops running only by receiving the status value, and the loop offers it
\* only after it received the dial error.
C25_DialFailureEndsProcess ==
    /\ (dialPc = "sendErr") ~> (~Running \/ doneClosed)
    /\ [][Running /\ ~Running' /\ ~doneClosed => StatusReceipt /\ mainPc' = "exited"]_vars
    /\ [](LoopExited /\ ~doneClosed => dialErr = "error")

\* C25 witness: the dial has failed, no signal has been received, and main
\* has left its loop on the status value of the connection loop.
C25_Witness ==
    /\ dialErr = "error"
    /\ mainPc = "exited"
    /\ loopPc = "returned"
    /\ ~doneClosed
    /\ signalCh = 0
    /\ timeoutTask = "none"

\* client.Close() is called only with doneCh closed
CloseOnlyAfterDone == closeCalled => doneClosed

\* every way out of the loop but the receipt of a dial error is taken with
\* doneCh closed, and client.Close() has been called when the status value
\* is offered
ShutdownExitsClose == [][ExitStep /\ ~DialErrorReceipt => doneClosed /\ closeCalled']_vars

\* C26 as claimed: client.Close() is called only with doneCh closed; a loop
\* that left on a dial error has never called it; a loop that left on a
\* shutdown request has.
C26_NoCloseOnDialFailurePath ==
    /\ []CloseOnlyAfterDone
    /\ [](LoopExited /\ dialErr = "error" => ~closeCalled)
    /\ ShutdownExitsClose

\* C26 amended: client.Close() is called only with doneCh closed; the step
\* that leaves on a dial error does not call it, so a loop that left on a
\* dial error has called it only if doneCh was closed before and the loop
\* took case <-doneCh while dialing; a loop that left on a shutdown request
\* has called it.
C26_CloseOnlyInDoneCases ==
    /\ []CloseOnlyAfterDone
    /\ [][DialErrorReceipt => UNCHANGED closeCalled]_vars
    /\ [][closeCalled' # closeCalled
            => doneClosed /\ loopPc \in {"select", "recheck"} /\ dialPc' = dialPc]_vars
    /\ ShutdownExitsClose

\* C26 witness: a signal came while the loop was dialing, the loop called
\* client.Close() and stayed in its for, then received a dial error and left.
C26_Witness ==
    /\ dialErr = "error"
    /\ closeCalled
    /\ doneClosed
    /\ loopPc = "status"
    /\ heldCmd = NoCmd

====
